---- MODULE Spec2Model ----
(***************************************************************************)
(* A model of sales_dashboard.py: a Streamlit script that is re-executed   *)
(* from top to bottom on every user interaction.  One action of the model  *)
(* is one interaction followed by the whole script run it triggers.        *)
(*                                                                         *)
(* Representation of the data:                                             *)
(*   - a timestamp is <<year, month, day, hour>>, a date <<year, month,    *)
(*     day>>, a monthly period <<year, month>>;                            *)
(*   - a product name is a natural number; the order of the numbers stands *)
(*     for the lexicographic order of the names;                           *)
(*   - Sales are integers (cents), so sums are exact;                      *)
(*   - a DataFrame with one row per group key is a set of records when its *)
(*     row order plays no part below, and a sequence when it does.         *)
(***************************************************************************)
EXTENDS Integers, Sequences, FiniteSets, TLC

\* ---------------------------------------------------------------- bounds

\* Longest CSV file whose rows are chosen freely from RowUniverse.
MaxRows == 2

\* Largest number of distinct products in a catalogue file (WideFile).
MaxProducts == 12

\* ------------------------------------------------------- program constant

\* top_products = ... .head(10)
TopN == 10

\* ------------------------------------------------------------ input data

Timestamps == {<<2022, 12, 31, 0>>, <<2023, 2, 1, 15>>}

\* The days the date picker can be set to (those outside [min_date,
\* max_date] of the loaded data are not offered).
Days == {<<2022, 12, 31>>, <<2023, 1, 15>>, <<2023, 2, 1>>}

Regions == {"East", "West"}

Category(p) == IF p % 2 = 0 THEN "Technology" ELSE "Office Supplies"

SubCategory(p) == IF p % 3 = 0 THEN "Chairs" ELSE IF p % 3 = 1 THEN "Paper" ELSE "Phones"

CsvRow(ts, reg, p, s) ==
    [OrderDate |-> ts, Region |-> reg, Category |-> Category(p),
     SubCategory |-> SubCategory(p), ProductName |-> p, Sales |-> s]

\* The rows a small file is made of: two products, product p sold at 50 * p.
RowUniverse ==
    {CsvRow(ts, reg, p, 50 * p) : ts \in Timestamps, reg \in Regions, p \in {1, 2}}

\* Every file of at most MaxRows rows over RowUniverse, in every row order.
SmallFiles == UNION {[1..n -> RowUniverse] : n \in 1..MaxRows}

\* A catalogue of n products, one row each, sold on one day, listed from
\* the last product name to the first.  Product p sells for 10 * p, except
\* that products 3, 10, 17, ... sell for as much as the product before
\* them: (2, 3) and (9, 10) are pairs of equal sales.
WideSales(p) == 10 * (IF p % 7 = 3 THEN p - 1 ELSE p)

WideFile(n) ==
    [i \in 1..n |->
        CsvRow(<<2023, 2, 1, 0>>, IF (n + 1 - i) % 4 = 0 THEN "West" ELSE "East",
               n + 1 - i, WideSales(n + 1 - i))]

Files == SmallFiles \cup {WideFile(n) : n \in 1..MaxProducts}

\* ------------------------------------------------------------- variables

VARIABLES
    file,                       \* the rows pd.read_csv parses from the CSV file
    cache,                      \* st.cache_data's store for load_data(): {} or {df}
    reads,                      \* how many times pd.read_csv has run in this process
    cache_hit,                  \* whether the last load_data() call was served by the cache
    status,                     \* "idle" before the first run, then "done" or "error"
    date_widget,                \* session value of the date range widget, <<>> when unset
    region_widget,              \* session state of "Select Regions": [options, value]
    category_widget,            \* session state of "Select Product Categories"
    df,                         \* the DataFrame load_data() returned to the last run
    start_date, end_date,
    region_filter, category_filter,
    filtered_df,
    monthly_sales,
    monthly_sales_region,
    monthly_subcategory_sales,
    sales_by_subcategory,
    region_monthly_sales_pivot,
    product_sales,              \* groupby('Product Name')['Sales'].sum().reset_index()
    top_products

vars == <<file, cache, reads, cache_hit, status, date_widget, region_widget,
          category_widget, df, start_date, end_date, region_filter,
          category_filter, filtered_df, monthly_sales, monthly_sales_region,
          monthly_subcategory_sales, sales_by_subcategory,
          region_monthly_sales_pivot, product_sales, top_products>>

\* --------------------------------------------------------------- helpers

Range(s) == {s[i] : i \in 1..Len(s)}

Min(a, b) == IF a < b THEN a ELSE b

RECURSIVE SumSales(_)
SumSales(rows) ==
    IF rows = <<>> THEN 0 ELSE Head(rows).Sales + SumSales(Tail(rows))

\* Series.unique(): the distinct values in order of first appearance.
RECURSIVE unique(_)
unique(values) ==
    IF values = <<>> THEN <<>>
    ELSE LET rest == unique(SubSeq(values, 1, Len(values) - 1))
             last == values[Len(values)]
         IN IF last \in Range(rest) THEN rest ELSE Append(rest, last)

\* ----------------------------------------------------------------- dates

\* Timestamp.date() / DatetimeIndex.date: the time of day is dropped.
date(ts) == <<ts[1], ts[2], ts[3]>>

DateLE(a, b) ==
    \/ a[1] < b[1]
    \/ a[1] = b[1] /\ a[2] < b[2]
    \/ a[1] = b[1] /\ a[2] = b[2] /\ a[3] <= b[3]

TimestampLE(a, b) ==
    \/ date(a) # date(b) /\ DateLE(date(a), date(b))
    \/ date(a) = date(b) /\ a[4] <= b[4]

index_min(d) == CHOOSE t \in {d[i].index : i \in 1..Len(d)} :
                    \A i \in 1..Len(d) : TimestampLE(t, d[i].index)

index_max(d) == CHOOSE t \in {d[i].index : i \in 1..Len(d)} :
                    \A i \in 1..Len(d) : TimestampLE(d[i].index, t)

\* to_period('M'): the timestamp truncated to its calendar month.
to_period(ts) == <<ts[1], ts[2]>>

\* Months counted from year 0, so that consecutive months differ by one.
MonthOrdinal(p) == p[1] * 12 + (p[2] - 1)

PeriodOf(n) == <<n \div 12, (n % 12) + 1>>

DaysInMonth(p) ==
    IF p[2] \in {4, 6, 9, 11} THEN 30
    ELSE IF p[2] # 2 THEN 31
    ELSE IF (p[1] % 4 = 0 /\ p[1] % 100 # 0) \/ p[1] % 400 = 0 THEN 29 ELSE 28

\* The label resample('M') gives a bin: the last day of the month.
MonthEnd(p) == <<p[1], p[2], DaysInMonth(p)>>

\* ------------------------------------------------------------ load_data

\* df.set_index('Order Date', inplace=True): the column becomes the index
\* and is no longer a column.
set_index(rows) ==
    [i \in 1..Len(rows) |->
        [index |-> rows[i].OrderDate, Region |-> rows[i].Region,
         Category |-> rows[i].Category, SubCategory |-> rows[i].SubCategory,
         ProductName |-> rows[i].ProductName, Sales |-> rows[i].Sales]]

\* A load_data() that is not decorated with @st.cache_data.
load_data_uncached(c, f) ==
    [df |-> set_index(f), cache |-> c, read |-> 1, hit |-> FALSE]

\* @st.cache_data def load_data(): the body runs when the cache holds no
\* entry for it; otherwise the stored value is handed out (as a copy, so
\* that nothing the caller does reaches the stored value).
load_data(c, f) ==
    IF c = {}
    THEN LET loaded == set_index(f)
         IN [df |-> loaded, cache |-> {loaded}, read |-> 1, hit |-> FALSE]
    ELSE [df |-> CHOOSE d \in c : TRUE, cache |-> c, read |-> 0, hit |-> TRUE]

\* --------------------------------------------------------------- widgets

\* st.sidebar.date_input("Date range", [min_date, max_date], ...): the
\* session's value when the user has set one, the default otherwise.
date_input(widget, default) == IF widget = <<>> THEN default ELSE widget

\* The days the date picker offers: min_value <= day <= max_value.
AllowedDays(d) ==
    {day \in Days : DateLE(date(index_min(d)), day) /\ DateLE(day, date(index_max(d)))}

\* A multiselect that hands back the session's last value whatever the
\* options now are.
multiselect_stale(widget, options) ==
    IF widget.options = <<>> THEN Range(options) ELSE widget.value

\* st.sidebar.multiselect(label, options=o, default=o): a widget is
\* identified by its label and arguments, so the session's value is kept
\* while the options are the same and a widget with other options starts
\* from its default, every option selected.
multiselect(widget, options) ==
    IF widget.options = options THEN widget.value ELSE Range(options)

\* --------------------------------------------------------------- filters

\* df[(df.index >= start) & (df.index <= end)] with the dates taken as
\* midnight timestamps: the time of day takes part in the comparison.
date_filter_timestamps(d, s, e) ==
    SelectSeq(d, LAMBDA r : TimestampLE(<<s[1], s[2], s[3], 0>>, r.index)
                            /\ TimestampLE(r.index, <<e[1], e[2], e[3], 0>>))

\* df[(df.index.date >= start_date) & (df.index.date <= end_date)]
date_filter(d, s, e) ==
    SelectSeq(d, LAMBDA r : DateLE(s, date(r.index)) /\ DateLE(date(r.index), e))

\* filtered_df[filtered_df['Region'].isin(..) & filtered_df['Category'].isin(..)]
isin_filter(d, regions, categories) ==
    SelectSeq(d, LAMBDA r : r.Region \in regions /\ r.Category \in categories)

\* ---------------------------------------------------------- aggregations

\* filtered_df.index.to_period("M"): the month of every row, in row order.
month_keys(rows) == [i \in 1..Len(rows) |-> to_period(rows[i].index)]

month_region_keys(rows) == [i \in 1..Len(rows) |-> <<to_period(rows[i].index), rows[i].Region>>]

month_subcategory_keys(rows) ==
    [i \in 1..Len(rows) |-> <<to_period(rows[i].index), rows[i].SubCategory>>]

subcategory_keys(rows) == [i \in 1..Len(rows) |-> rows[i].SubCategory]

region_keys(rows) == [i \in 1..Len(rows) |-> rows[i].Region]

category_keys(rows) == [i \in 1..Len(rows) |-> rows[i].Category]

product_keys(rows) == [i \in 1..Len(rows) |-> rows[i].ProductName]

\* groupby(keys)['Sales'].sum() for the group of key k: the sum of Sales
\* over the rows whose key is k, every such row counted once.
RECURSIVE GroupSum(_, _, _)
GroupSum(rows, keys, k) ==
    IF rows = <<>> THEN 0
    ELSE (IF Head(keys) = k THEN Head(rows).Sales ELSE 0) + GroupSum(Tail(rows), Tail(keys), k)

\* The ascending sequence of a set of integers.
RECURSIVE Ascending(_)
Ascending(S) ==
    IF S = {} THEN <<>>
    ELSE LET lo == CHOOSE x \in S : \A y \in S : x <= y
         IN <<lo>> \o Ascending(S \ {lo})

\* A monthly grouping that has a row only for the months that have rows
\* (groupby on the month instead of resample).
resample_present_only(rows) ==
    LET order == Ascending({MonthOrdinal(m) : m \in Range(month_keys(rows))})
    IN [k \in 1..Len(order) |->
           [OrderDate |-> MonthEnd(PeriodOf(order[k])),
            Sales |-> GroupSum(rows, month_keys(rows), PeriodOf(order[k]))]]

\* A resample whose last bin is left out.
resample_short(rows) ==
    IF rows = <<>> THEN <<>>
    ELSE LET order == Ascending({MonthOrdinal(m) : m \in Range(month_keys(rows))})
             lo == order[1]
             hi == order[Len(order)]
         IN [k \in 1..(hi - lo) |->
                [OrderDate |-> MonthEnd(PeriodOf(lo + k - 1)),
                 Sales |-> GroupSum(rows, month_keys(rows), PeriodOf(lo + k - 1))]]

\* filtered_df['Sales'].resample('M').sum().reset_index(): one bin for every
\* calendar month from the month of the earliest row to the month of the
\* latest, in ascending order, labelled by its last day; the sum of a bin
\* with no rows is 0.  No bins when there are no rows.
resample_sum(rows) ==
    IF rows = <<>> THEN <<>>
    ELSE LET order == Ascending({MonthOrdinal(m) : m \in Range(month_keys(rows))})
             lo == order[1]
             hi == order[Len(order)]
         IN [k \in 1..(hi - lo + 1) |->
                [OrderDate |-> MonthEnd(PeriodOf(lo + k - 1)),
                 Sales |-> GroupSum(rows, month_keys(rows), PeriodOf(lo + k - 1))]]

\* monthly_sales['Year-Month'] = monthly_sales['Order Date'].dt.to_period('M').astype(str)
with_year_month(table) ==
    [k \in 1..Len(table) |->
        [OrderDate |-> table[k].OrderDate, Sales |-> table[k].Sales,
         YearMonth |-> <<table[k].OrderDate[1], table[k].OrderDate[2]>>]]

\* A grouping that forgets the month: every (month, region) row carries the
\* region's sum over all months.
groupby_region_only(rows) ==
    {[OrderDate |-> k[1], Region |-> k[2], Sales |-> GroupSum(rows, region_keys(rows), k[2])] :
        k \in Range(month_region_keys(rows))}

\* groupby([index.to_period("M"), 'Region'])['Sales'].sum().reset_index():
\* one row per (month, region) pair that has rows.
groupby_month_region(rows) ==
    {[OrderDate |-> k[1], Region |-> k[2], Sales |-> GroupSum(rows, month_region_keys(rows), k)] :
        k \in Range(month_region_keys(rows))}

\* groupby([index.to_period('M'), 'Sub-Category'])['Sales'].sum().reset_index()
groupby_month_subcategory(rows) ==
    {[OrderDate |-> k[1], SubCategory |-> k[2],
      Sales |-> GroupSum(rows, month_subcategory_keys(rows), k)] :
        k \in Range(month_subcategory_keys(rows))}

\* groupby('Sub-Category')['Sales'].sum().reset_index()
groupby_subcategory(rows) ==
    {[SubCategory |-> k, Sales |-> GroupSum(rows, subcategory_keys(rows), k)] :
        k \in Range(subcategory_keys(rows))}

\* ----------------------------------------------------------------- pivot

\* region_monthly_sales.pivot(index="Region", columns="Order Date",
\* values="Sales"): the regions and the months of the long table span the
\* frame; a cell has a value where the long table has a row.
pivot(long) ==
    [index |-> {r.Region : r \in long},
     columns |-> {r.OrderDate : r \in long},
     cell |-> [rc \in {<<r.Region, r.OrderDate>> : r \in long} |->
                  (CHOOSE r \in long : r.Region = rc[1] /\ r.OrderDate = rc[2]).Sales]]

\* .fillna(0): every cell of the frame without a value gets v.
fillna(frame, v) ==
    [index |-> frame.index,
     columns |-> frame.columns,
     cell |-> [rc \in frame.index \X frame.columns |->
                  IF rc \in DOMAIN frame.cell THEN frame.cell[rc] ELSE v]]

\* sns.heatmap(pivot, annot=True, ...) takes the colour range from the
\* minimum and maximum of the matrix (np.nanmin, np.nanmax), which raise
\* ValueError on a matrix of size zero.
heatmap_raises(frame) == frame.index = {} \/ frame.columns = {}

\* ---------------------------------------------------------- top products

\* A grouping by product that keeps the groups in order of first appearance
\* (groupby(..., sort=False)).
groupby_product_unsorted(rows) ==
    LET order == unique(product_keys(rows))
    IN [k \in 1..Len(order) |->
           [ProductName |-> order[k], Sales |-> GroupSum(rows, product_keys(rows), order[k])]]

\* groupby('Product Name')['Sales'].sum().reset_index(): one row per product
\* that has rows, the products in ascending order of their names (groupby
\* sorts the group keys).
groupby_product(rows) ==
    LET order == Ascending(Range(product_keys(rows)))
    IN [k \in 1..Len(order) |->
           [ProductName |-> order[k], Sales |-> GroupSum(rows, product_keys(rows), order[k])]]

\* Every way of lining up the rows of S with Sales never increasing.
RECURSIVE DescendingOrders(_)
DescendingOrders(S) ==
    IF S = {} THEN {<<>>}
    ELSE LET top == {x \in S : \A y \in S : y.Sales <= x.Sales}
         IN UNION {{<<x>> \o rest : rest \in DescendingOrders(S \ {x})} : x \in top}

\* Every way of lining up the rows of S with Sales never decreasing.
RECURSIVE AscendingOrders(_)
AscendingOrders(S) ==
    IF S = {} THEN {<<>>}
    ELSE LET low == {x \in S : \A y \in S : x.Sales <= y.Sales}
         IN UNION {{<<x>> \o rest : rest \in AscendingOrders(S \ {x})} : x \in low}

\* sort_values(by='Sales') with ascending left at its default, True.
sort_values_ascending(table) == AscendingOrders(Range(table))

\* .sort_values(by='Sales', ascending=False): the sort is pandas' default
\* kind, quicksort, which is not stable, so rows of equal Sales may come out
\* in any order: the set of tables the call may return.
sort_values(table) == DescendingOrders(Range(table))

\* .head(n): the first n rows, all of them when there are fewer.
head(table, n) == SubSeq(table, 1, Min(n, Len(table)))

\* ------------------------------------------------------------ the script

EmptyWidget == [options |-> <<>>, value |-> {}]

EmptyFrame == [index |-> {}, columns |-> {}, cell |-> <<>>]

Init ==
    /\ file \in Files
    /\ cache = {}
    /\ reads = 0
    /\ cache_hit = FALSE
    /\ status = "idle"
    /\ date_widget = <<>>
    /\ region_widget = EmptyWidget
    /\ category_widget = EmptyWidget
    /\ df = <<>>
    /\ start_date = <<>>
    /\ end_date = <<>>
    /\ region_filter = {}
    /\ category_filter = {}
    /\ filtered_df = <<>>
    /\ monthly_sales = <<>>
    /\ monthly_sales_region = {}
    /\ monthly_subcategory_sales = {}
    /\ sales_by_subcategory = {}
    /\ region_monthly_sales_pivot = EmptyFrame
    /\ product_sales = <<>>
    /\ top_products = <<>>

\* Lines 44 to 128: the preview, the six aggregate tables and their charts,
\* computed from the cached DataFrame's filtered rows.  The run ends where
\* sns.heatmap raises (line 115), with the statements after it not
\* executed, or at the end of the script.
Aggregate(filtered, frame, by_product) ==
    /\ filtered_df' = filtered
    /\ monthly_sales' = with_year_month(resample_sum(filtered))
    /\ monthly_sales_region' = groupby_month_region(filtered)
    /\ monthly_subcategory_sales' = groupby_month_subcategory(filtered)
    /\ sales_by_subcategory' = groupby_subcategory(filtered)
    /\ region_monthly_sales_pivot' = frame
    /\ IF heatmap_raises(frame)
       THEN /\ status' = "error"
            /\ product_sales' = <<>>
            /\ top_products' = <<>>
       ELSE /\ status' = "done"
            /\ product_sales' = by_product
            /\ \E sorted \in sort_values(by_product) : top_products' = head(sorted, TopN)

\* Lines 36 to 42: the two multiselects, whose options are the regions and
\* the categories of the rows in the date range, and the second filter.
Select(by_date, region_options, category_options, rw, cw) ==
    LET regions == multiselect(rw, region_options)
        categories == multiselect(cw, category_options)
        filtered == isin_filter(by_date, regions, categories)
    IN /\ region_widget' = [options |-> region_options, value |-> regions]
       /\ category_widget' = [options |-> category_options, value |-> categories]
       /\ region_filter' = regions
       /\ category_filter' = categories
       /\ Aggregate(filtered, fillna(pivot(groupby_month_region(filtered)), 0),
                    groupby_product(filtered))

\* Lines 29 to 34: the date range widget and the date filter.
Filter(d, range, rw, cw) ==
    /\ date_widget' = range
    /\ start_date' = range[1]
    /\ end_date' = range[2]
    /\ Select(date_filter(d, range[1], range[2]),
              unique(region_keys(date_filter(d, range[1], range[2]))),
              unique(category_keys(date_filter(d, range[1], range[2]))), rw, cw)

\* Line 19 on: df = load_data() and what follows from it.
Load(loaded, dw, rw, cw) ==
    /\ cache' = loaded.cache
    /\ reads' = reads + loaded.read
    /\ cache_hit' = loaded.hit
    /\ df' = loaded.df
    /\ Filter(loaded.df,
              date_input(dw, <<date(index_min(loaded.df)), date(index_max(loaded.df))>>), rw, cw)

\* One run of the script, top to bottom, in a session whose widgets hold dw,
\* rw and cw.
Script(dw, rw, cw) ==
    /\ Load(load_data(cache, file), dw, rw, cw)
    /\ UNCHANGED file

\* A browser session opens the page: its widgets start from their defaults.
NewSession == Script(<<>>, EmptyWidget, EmptyWidget)

\* The user picks a date range in the sidebar: two of the days the widget
\* offers.  The script unpacks the pair as it comes and puts no condition
\* on the order of the two days.
ChangeDate ==
    /\ status # "idle"
    /\ \E s \in AllowedDays(df), e \in AllowedDays(df) :
          /\ <<s, e>> # date_widget
          /\ Script(<<s, e>>, region_widget, category_widget)

\* The user changes the selection of "Select Regions" among its options.
ChangeRegions ==
    /\ status # "idle"
    /\ \E S \in SUBSET Range(region_widget.options) :
          /\ S # region_widget.value
          /\ Script(date_widget, [region_widget EXCEPT !.value = S], category_widget)

\* The user changes the selection of "Select Product Categories".
ChangeCategories ==
    /\ status # "idle"
    /\ \E S \in SUBSET Range(category_widget.options) :
          /\ S # category_widget.value
          /\ Script(date_widget, region_widget, [category_widget EXCEPT !.value = S])

Next == NewSession \/ ChangeDate \/ ChangeRegions \/ ChangeCategories

Spec == Init /\ [][Next]_vars

\* ------------------------------------------------------------ properties

\* The rows of rows whose product is p.
RowsOf(rows, p) == SelectSeq(rows, LAMBDA r : r.ProductName = p)

\* The position in rows of the first row of product p.
FirstRow(rows, p) ==
    CHOOSE i \in 1..Len(rows) :
        /\ rows[i].ProductName = p
        /\ \A j \in 1..(i - 1) : rows[j].ProductName # p

\* The months in which rows has rows.
MonthsWithRows(rows) == {to_period(rows[i].index) : i \in 1..Len(rows)}

\* C1: the Filtered Dataset of a run is exactly the rows of the Dataset, in
\* their order, whose order date lies in [start_date, end_date] (the time of
\* day ignored), whose region is selected and whose category is selected.
FilteredIsExactlyTheSelection ==
    status # "idle" =>
        filtered_df = SelectSeq(df, LAMBDA r :
                          /\ DateLE(start_date, <<r.index[1], r.index[2], r.index[3]>>)
                          /\ DateLE(<<r.index[1], r.index[2], r.index[3]>>, end_date)
                          /\ r.Region \in region_filter
                          /\ r.Category \in category_filter)

\* A run that kept some rows and dropped others, one of the kept rows
\* carrying a time of day on the end date itself.
FilteredIsExactlyTheSelection_witness ==
    /\ status = "done"
    /\ Len(filtered_df) < Len(df)
    /\ \E i \in 1..Len(filtered_df) :
          /\ date(filtered_df[i].index) = end_date
          /\ filtered_df[i].index[4] > 0

\* C2 (as stated): with no region or no category selected among the options
\* offered, the run has 0 rows, ends without an error and has computed all
\* six aggregations as empty tables.
EmptySelectionRendersEmptyTables ==
    (/\ status # "idle"
     /\ \/ region_widget.options # <<>> /\ region_filter = {}
        \/ category_widget.options # <<>> /\ category_filter = {})
    => /\ filtered_df = <<>>
       /\ status = "done"
       /\ monthly_sales = <<>>
       /\ monthly_sales_region = {}
       /\ monthly_subcategory_sales = {}
       /\ sales_by_subcategory = {}
       /\ region_monthly_sales_pivot.cell = <<>>
       /\ top_products = <<>>

\* C3 (as stated): with the start date after the end date the run does not
\* end in an error and the Filtered Dataset is empty.
StartAfterEndRendersEmpty ==
    (status # "idle" /\ ~DateLE(start_date, end_date))
    => (status = "done" /\ filtered_df = <<>>)

\* C4: the Sales of the monthly total table add up to the Sales of the
\* Filtered Dataset.
MonthlyTotalConservesSales ==
    status # "idle" => SumSales(monthly_sales) = SumSales(filtered_df)

\* A monthly total table of several months that sums several rows.
MonthlyTotalConservesSales_witness ==
    /\ status = "done"
    /\ Len(monthly_sales) >= 2
    /\ Len(filtered_df) >= 2
    /\ SumSales(filtered_df) > 0

\* C5: the matrix has a row for every region and a column for every month of
\* the Filtered Dataset, and cell (r, m) is the sum of Sales over the rows of
\* region r and month m, 0 when there are none.
PivotCellIsRegionMonthSum ==
    status # "idle" =>
        /\ region_monthly_sales_pivot.index = {filtered_df[i].Region : i \in 1..Len(filtered_df)}
        /\ region_monthly_sales_pivot.columns = MonthsWithRows(filtered_df)
        /\ \A r \in region_monthly_sales_pivot.index, m \in region_monthly_sales_pivot.columns :
              region_monthly_sales_pivot.cell[<<r, m>>] =
                  SumSales(SelectSeq(filtered_df,
                                     LAMBDA x : x.Region = r /\ <<x.index[1], x.index[2]>> = m))

\* A matrix with a cell filled with 0 beside a cell that sums rows.
PivotCellIsRegionMonthSum_witness ==
    /\ status = "done"
    /\ \E r \in region_monthly_sales_pivot.index, m \in region_monthly_sales_pivot.columns :
          /\ region_monthly_sales_pivot.cell[<<r, m>>] = 0
          /\ \A i \in 1..Len(filtered_df) :
                ~(filtered_df[i].Region = r /\ to_period(filtered_df[i].index) = m)
    /\ \E r \in region_monthly_sales_pivot.index, m \in region_monthly_sales_pivot.columns :
          region_monthly_sales_pivot.cell[<<r, m>>] > 0

\* C6: the top-products table has at most 10 rows, each the summed Sales of
\* its product, in descending order of Sales, and no product left out of it
\* has summed Sales greater than a product in it.
TopProductsAreTheLargest ==
    status = "done" =>
        /\ Len(top_products) <= 10
        /\ \A i \in 1..Len(top_products) :
              top_products[i].Sales = SumSales(RowsOf(filtered_df, top_products[i].ProductName))
        /\ \A i, j \in 1..Len(top_products) :
              i < j => top_products[i].Sales >= top_products[j].Sales
        /\ \A q \in {filtered_df[i].ProductName : i \in 1..Len(filtered_df)}
                    \ {top_products[i].ProductName : i \in 1..Len(top_products)} :
              \A i \in 1..Len(top_products) :
                  top_products[i].Sales >= SumSales(RowsOf(filtered_df, q))

\* A run over more than 10 products whose table was cut to 10 rows.
TopProductsAreTheLargest_witness ==
    /\ status = "done"
    /\ Len(top_products) = 10
    /\ Cardinality({filtered_df[i].ProductName : i \in 1..Len(filtered_df)}) > 10
    /\ top_products[1].Sales > top_products[10].Sales

\* C7 (as stated): every month that has a row in the monthly total, the
\* monthly-by-region or the monthly-by-sub-category table is a month in
\* which the Filtered Dataset has rows.
EmptyMonthsAbsentFromLongTables ==
    status # "idle" =>
        /\ \A k \in 1..Len(monthly_sales) :
              monthly_sales[k].YearMonth \in MonthsWithRows(filtered_df)
        /\ \A g \in monthly_sales_region : g.OrderDate \in MonthsWithRows(filtered_df)
        /\ \A g \in monthly_subcategory_sales : g.OrderDate \in MonthsWithRows(filtered_df)

\* C7 (amended): the monthly-by-region and monthly-by-sub-category tables
\* have rows for exactly the months in which the Filtered Dataset has rows;
\* the monthly total table has one row for every calendar month from the
\* first month with rows to the last, in ascending order, and its row for a
\* month without rows in between holds 0.
EmptyMonthsAppearInMonthlyTotal ==
    status # "idle" =>
        /\ {g.OrderDate : g \in monthly_sales_region} = MonthsWithRows(filtered_df)
        /\ {g.OrderDate : g \in monthly_subcategory_sales} = MonthsWithRows(filtered_df)
        /\ {monthly_sales[k].YearMonth : k \in 1..Len(monthly_sales)} =
              {m \in {<<y, mm>> : y \in 2022..2023, mm \in 1..12} :
                  \E a, b \in MonthsWithRows(filtered_df) :
                      /\ a[1] * 12 + a[2] <= m[1] * 12 + m[2]
                      /\ m[1] * 12 + m[2] <= b[1] * 12 + b[2]}
        /\ \A k \in 1..(Len(monthly_sales) - 1) :
              monthly_sales[k + 1].YearMonth =
                  IF monthly_sales[k].YearMonth[2] = 12
                  THEN <<monthly_sales[k].YearMonth[1] + 1, 1>>
                  ELSE <<monthly_sales[k].YearMonth[1], monthly_sales[k].YearMonth[2] + 1>>
        /\ \A k \in 1..Len(monthly_sales) :
              monthly_sales[k].YearMonth \notin MonthsWithRows(filtered_df)
                  => monthly_sales[k].Sales = 0

\* A monthly total table with a row, holding 0, for a month without rows.
EmptyMonthsAppearInMonthlyTotal_witness ==
    /\ status = "done"
    /\ \E k \in 1..Len(monthly_sales) :
          /\ monthly_sales[k].YearMonth \notin MonthsWithRows(filtered_df)
          /\ monthly_sales[k].Sales = 0
          /\ 1 < k
          /\ k < Len(monthly_sales)

\* C8: the file is read once, by the first run; every run works on the
\* DataFrame the first run stored in the cache, and the cache holds that
\* DataFrame, as loaded, ever after.
DatasetReadOnceAndNeverModified ==
    /\ reads <= 1
    /\ status = "idle" => reads = 0 /\ cache = {}
    /\ status # "idle" =>
          /\ reads = 1
          /\ cache = {[i \in 1..Len(file) |->
                          [index |-> file[i].OrderDate, Region |-> file[i].Region,
                           Category |-> file[i].Category, SubCategory |-> file[i].SubCategory,
                           ProductName |-> file[i].ProductName, Sales |-> file[i].Sales]]}
          /\ df \in cache

\* A run served by the cache after a run that filtered and aggregated.
DatasetReadOnceAndNeverModified_witness ==
    /\ cache_hit
    /\ reads = 1
    /\ status = "done"
    /\ Len(filtered_df) < Len(df)

\* C9 (as stated): products of equal summed Sales stand in the top-products
\* table in the order of their first rows in the Filtered Dataset, and one
\* of them left out of the table has its first row after those in it.
TiesFollowFirstAppearance ==
    status = "done" =>
        /\ \A i, j \in 1..Len(top_products) :
              (i < j /\ top_products[i].Sales = top_products[j].Sales)
                  => FirstRow(filtered_df, top_products[i].ProductName)
                         < FirstRow(filtered_df, top_products[j].ProductName)
        /\ \A q \in {filtered_df[i].ProductName : i \in 1..Len(filtered_df)}
                    \ {top_products[i].ProductName : i \in 1..Len(top_products)} :
              \A i \in 1..Len(top_products) :
                  top_products[i].Sales = SumSales(RowsOf(filtered_df, q))
                      => FirstRow(filtered_df, top_products[i].ProductName)
                             < FirstRow(filtered_df, q)

\* C9 (amended): the row order of the Filtered Dataset plays no part in the
\* top-products table.  The products are summed into a table in ascending
\* order of product name, one row each, and the top-products table is
\* min(10, number of products) distinct rows of that table; products of
\* equal summed Sales may stand in it in either order.
TiesFollowNoRowOrder ==
    status = "done" =>
        /\ {product_sales[k].ProductName : k \in 1..Len(product_sales)} =
              {filtered_df[i].ProductName : i \in 1..Len(filtered_df)}
        /\ \A k \in 1..(Len(product_sales) - 1) :
              product_sales[k].ProductName < product_sales[k + 1].ProductName
        /\ Len(top_products) = Min(10, Len(product_sales))
        /\ \A i \in 1..Len(top_products) :
              \E k \in 1..Len(product_sales) : top_products[i] = product_sales[k]
        /\ \A i, j \in 1..Len(top_products) :
              i # j => top_products[i].ProductName # top_products[j].ProductName

\* Two products of equal summed Sales in the table, the one whose first row
\* comes later standing first; and two such products with the one whose
\* first row comes earlier standing first.
TiesFollowNoRowOrder_witness ==
    /\ status = "done"
    /\ \E i, j \in 1..Len(top_products) :
          /\ i < j
          /\ top_products[i].Sales = top_products[j].Sales
          /\ FirstRow(filtered_df, top_products[i].ProductName)
                 > FirstRow(filtered_df, top_products[j].ProductName)
    /\ \E i, j \in 1..Len(top_products) :
          /\ i < j
          /\ top_products[i].Sales = top_products[j].Sales
          /\ FirstRow(filtered_df, top_products[i].ProductName)
                 < FirstRow(filtered_df, top_products[j].ProductName)

\* C10: the regions and the categories a run filters by are among those of
\* the rows in its date range.
SelectionsAreAmongCurrentOptions ==
    status # "idle" =>
        /\ region_filter \subseteq
              {df[i].Region : i \in {k \in 1..Len(df) :
                  DateLE(start_date, date(df[k].index)) /\ DateLE(date(df[k].index), end_date)}}
        /\ category_filter \subseteq
              {df[i].Category : i \in {k \in 1..Len(df) :
                  DateLE(start_date, date(df[k].index)) /\ DateLE(date(df[k].index), end_date)}}

\* A run after a change of the date range that left fewer regions to choose
\* from than the Dataset has, with a region selected.
SelectionsAreAmongCurrentOptions_witness ==
    /\ status = "done"
    /\ cache_hit
    /\ region_filter # {}
    /\ Range(region_widget.options) # {df[i].Region : i \in 1..Len(df)}
    /\ <<start_date, end_date>> # <<date(index_min(df)), date(index_max(df))>>

====
